---------------------------- MODULE Spec2Model ----------------------------
(***************************************************************************)
(* A model of gloom-rs' src/main.rs: the scene graph built by the render   *)
(* thread, the per-frame animation driver, the recursive traversal         *)
(* draw_scene with its transform composition, and the input state shared   *)
(* between the render thread and the event loop.                           *)
(*                                                                         *)
(* Numbers.  f32 values are modelled in fixed point: the integer v stands  *)
(* for v / One.  Angles are in milliradians, lengths in thousandths.       *)
(* Multiplying by the fixed-point 1 or 0 is exact, as it is for finite     *)
(* f32 values.  Time is counted in deciseconds.                            *)
(***************************************************************************)
EXTENDS Integers, Sequences, FiniteSets, TLC

(***************************************************************************)
(* Bounds of the model.                                                    *)
(***************************************************************************)
\* Largest value of `elapsed` (deciseconds) a frame observes when the render
\* thread runs alone, and when it runs beside the event loop.
MaxElapsed == 32
MaxLoopElapsed == 8
\* Largest number of nodes created in the free tree-building specification.
MaxNodes == 4
\* Largest accumulated mouse movement per axis.
MaxMouse == 1

(***************************************************************************)
(* Fixed-point arithmetic and vectors.                                     *)
(***************************************************************************)
\* The fixed-point representation of 1.0.
One == 1000

FMul(a, b) == (a * b) \div One

Vec3(x, y, z) == <<x, y, z>>

Neg3(v) == <<0 - v[1], 0 - v[2], 0 - v[3]>>

ZeroVec == Vec3(0, 0, 0)

OneVec == Vec3(One, One, One)

\* cos on [0, pi/2], by its Taylor polynomial.
CosQ(x) ==
    LET x2 == FMul(x, x)
        x4 == FMul(x2, x2)
        x6 == FMul(x4, x2)
        x8 == FMul(x4, x4)
    IN  One - (x2 \div 2) + (x4 \div 24) - (x6 \div 720) + (x8 \div 40320)

\* sin on [0, pi/2], by its Taylor polynomial.
SinQ(x) ==
    LET x2 == FMul(x, x)
        x3 == FMul(x2, x)
        x5 == FMul(x3, x2)
        x7 == FMul(x5, x2)
        x9 == FMul(x7, x2)
    IN  x - (x3 \div 6) + (x5 \div 120) - (x7 \div 5040) + (x9 \div 362880)

\* f32::cos of an angle in milliradians (range reduction, then CosQ).
Cos(a) ==
    LET r == a % 6283
    IN  IF r <= 1571 THEN CosQ(r)
        ELSE IF r <= 3142 THEN 0 - CosQ(3142 - r)
        ELSE IF r <= 4712 THEN 0 - CosQ(r - 3142)
        ELSE CosQ(6283 - r)

\* f32::sin of an angle in milliradians (range reduction, then SinQ).
Sin(a) ==
    LET r == a % 6283
    IN  IF r <= 1571 THEN SinQ(r)
        ELSE IF r <= 3142 THEN SinQ(3142 - r)
        ELSE IF r <= 4712 THEN 0 - SinQ(r - 3142)
        ELSE 0 - SinQ(6283 - r)

(***************************************************************************)
(* 4x4 matrices (glm::Mat4), as four rows of four entries.                 *)
(***************************************************************************)
Identity ==
    << <<One, 0, 0, 0>>,
       <<0, One, 0, 0>>,
       <<0, 0, One, 0>>,
       <<0, 0, 0, One>> >>

\* One entry of a matrix product: row r of a times column c of b.
Dot(a, b, r, c) ==
    (a[r][1] * b[1][c] + a[r][2] * b[2][c] + a[r][3] * b[3][c]
     + a[r][4] * b[4][c]) \div One

\* The sixteen entries of the product of the matrix values a and b.
Product(a, b) ==
    << <<Dot(a, b, 1, 1), Dot(a, b, 1, 2), Dot(a, b, 1, 3), Dot(a, b, 1, 4)>>,
       <<Dot(a, b, 2, 1), Dot(a, b, 2, 2), Dot(a, b, 2, 3), Dot(a, b, 2, 4)>>,
       <<Dot(a, b, 3, 1), Dot(a, b, 3, 2), Dot(a, b, 3, 3), Dot(a, b, 3, 4)>>,
       <<Dot(a, b, 4, 1), Dot(a, b, 4, 2), Dot(a, b, 4, 3), Dot(a, b, 4, 4)>> >>

\* The matrix product a * b (glm's `*` on Mat4).  Each operand is bound to
\* its value once, as the operands of `*` are evaluated once.
MatMul(a, b) ==
    CHOOSE m \in {Product(x, y) : x \in {a}, y \in {b}} : TRUE

\* glm::translation(&v)
Translation(v) ==
    << <<One, 0, 0, v[1]>>,
       <<0, One, 0, v[2]>>,
       <<0, 0, One, v[3]>>,
       <<0, 0, 0, One>> >>

\* glm::scaling(&v)
Scaling(v) ==
    << <<v[1], 0, 0, 0>>,
       <<0, v[2], 0, 0>>,
       <<0, 0, v[3], 0>>,
       <<0, 0, 0, One>> >>

\* glm::rotation(angle, &vec3(1, 0, 0))
RotationX(angle) ==
    << <<One, 0, 0, 0>>,
       <<0, Cos(angle), 0 - Sin(angle), 0>>,
       <<0, Sin(angle), Cos(angle), 0>>,
       <<0, 0, 0, One>> >>

\* glm::rotation(angle, &vec3(0, 1, 0))
RotationY(angle) ==
    << <<Cos(angle), 0, Sin(angle), 0>>,
       <<0, One, 0, 0>>,
       <<0 - Sin(angle), 0, Cos(angle), 0>>,
       <<0, 0, 0, One>> >>

\* glm::rotation(angle, &vec3(0, 0, 1))
RotationZ(angle) ==
    << <<Cos(angle), 0 - Sin(angle), 0, 0>>,
       <<Sin(angle), Cos(angle), 0, 0>>,
       <<0, 0, One, 0>>,
       <<0, 0, 0, One>> >>

\* One coordinate of the matrix m applied to the point p.
PointRow(m, p, r) ==
    (m[r][1] * p[1] + m[r][2] * p[2] + m[r][3] * p[3] + m[r][4] * One)
        \div One

\* The matrix m applied to the point p (homogeneous coordinate 1).
TransformPoint(m, p) ==
    <<PointRow(m, p, 1), PointRow(m, p, 2), PointRow(m, p, 3)>>

(***************************************************************************)
(* Scene nodes (scene_graph::SceneNode).  The arena `nodes` is a sequence; *)
(* a node is named by its index, which stands for its stable address.      *)
(***************************************************************************)
\* SceneNode::new()
NewNode ==
    [position |-> ZeroVec, rotation |-> ZeroVec, scale |-> OneVec,
     reference_point |-> ZeroVec, vao_id |-> 0, index_count |-> 0,
     children |-> <<>>]

\* SceneNode::from_vao(vao_id, index_count)
FromVao(vao, count) ==
    [NewNode EXCEPT !.vao_id = vao, !.index_count = count]

(***************************************************************************)
(* The transform composer: the first half of draw_scene.                   *)
(***************************************************************************)
\* local_translation * translation_back * local_rotation
\*   * translation_to_origin * local_scaling
LocalTransform(node) ==
    LET local_translation == Translation(node.position)
        local_rotation ==
            MatMul(MatMul(RotationX(node.rotation[1]),
                          RotationY(node.rotation[2])),
                   RotationZ(node.rotation[3]))
        local_scaling == Scaling(node.scale)
        translation_to_origin == Translation(Neg3(node.reference_point))
        translation_back == Translation(node.reference_point)
    IN  MatMul(MatMul(MatMul(MatMul(local_translation, translation_back),
                             local_rotation),
                      translation_to_origin),
               local_scaling)

\* A composer that forgets the transform accumulated from the ancestors.
CombinedTransformDropsParent(node, transformation_so_far) ==
    LocalTransform(node)

\* combined_transform = transformation_so_far * local_transform
CombinedTransform(node, transformation_so_far) ==
    MatMul(transformation_so_far, LocalTransform(node))


(***************************************************************************)
(* Scene graph operations (scene_graph.rs), on an arena ns.                *)
(***************************************************************************)
\* parent.add_child(&child): appends the child's address to parent.children
AddChild(ns, parent, child) ==
    [ns EXCEPT ![parent].children = Append(@, child)]

\* node.get_child(index): the index-th child (0-based)
GetChild(ns, node, index) == ns[node].children[index + 1]

(***************************************************************************)
(* draw_scene: uploads the node's matrices, draws its payload if it has    *)
(* one, and recurses into the children with the node's combined            *)
(* transform.  The result is the sequence of GL calls issued.  The         *)
(* view-projection matrix is an opaque input of the traversal, so of the   *)
(* two uniform uploads only modelMatrix is recorded.  The field `node` of  *)
(* a call is a label naming the node being visited.                        *)
(***************************************************************************)
\* gl::UniformMatrix4fv(model_loc, 1, gl::FALSE, combined_transform.as_ptr())
UniformCall(n, combined_transform) ==
    [call |-> "UniformMatrix4fv", node |-> n, model |-> combined_transform,
     vao_id |-> 0, index_count |-> 0]

\* gl::BindVertexArray(vao_id); gl::DrawElements(TRIANGLES, index_count, ..)
DrawCall(n, node, combined_transform) ==
    [call |-> "DrawElements", node |-> n, model |-> combined_transform,
     vao_id |-> node.vao_id, index_count |-> node.index_count]

\* A traversal that draws every node, with or without a payload.
HasPayloadAlways(node) == TRUE

\* if node.vao_id != 0
HasPayload(node) == node.vao_id # 0

\* A traversal that walks the children last to first.
ChildOrderReversed(children) ==
    [k \in 1..Len(children) |-> children[Len(children) + 1 - k]]

\* for &child in &node.children
ChildOrder(children) == children

\* A traversal that hands its own transformation_so_far down to the children.
ChildTransformSoFar(combined_transform, transformation_so_far) ==
    transformation_so_far

\* the transformation_so_far argument of the recursive call
ChildTransform(combined_transform, transformation_so_far) == combined_transform

RECURSIVE DrawSiblings(_, _, _, _)
\* draw_scene on the siblings `children` from the k-th on, one after the
\* other, each with `transformation_so_far`: the body of draw_scene for the
\* k-th, its own children included, and then the loop's next iteration.
DrawSiblings(ns, children, transformation_so_far, k) ==
    IF k > Len(children) THEN <<>>
    ELSE LET n == children[k]
             node == ns[n]
             combined_transform ==
                 CombinedTransform(node, transformation_so_far)
             uniforms == <<UniformCall(n, combined_transform)>>
             draw == IF HasPayload(node)
                     THEN <<DrawCall(n, node, combined_transform)>>
                     ELSE <<>>
         IN  uniforms \o draw
             \o DrawSiblings(ns, ChildOrder(node.children),
                             ChildTransform(combined_transform,
                                            transformation_so_far), 1)
             \o DrawSiblings(ns, children, transformation_so_far, k + 1)

\* draw_scene(node, view_projection_matrix, transformation_so_far, ..)
DrawScene(ns, n, transformation_so_far) ==
    DrawSiblings(ns, <<n>>, transformation_so_far, 1)

(***************************************************************************)
(* State.                                                                  *)
(***************************************************************************)
VARIABLES
    nodes,          \* the arena of scene nodes, indexed by node address
    pc,             \* position of the render thread
    iter,           \* loop index of the render thread's setup loops
    cur,            \* the nodes created by the current setup iteration
    helicopters,    \* Vec<Node>: the helicopter root nodes
    root_node,      \* the scene root (0 before it is created)
    elapsed,        \* seconds since the first frame, in deciseconds
    frame_keys,     \* the keys the camera update iterated over this frame
    gl_log,         \* the GL calls issued by the last traversal
    so_far,         \* the transformation_so_far of the outermost draw_scene
    pressed_keys,   \* Mutex<Vec<VirtualKeyCode>>
    mouse_delta,    \* Mutex<(f32, f32)>
    window_size,    \* Mutex<(u32, u32, bool)>
    locks,          \* who holds each of the three mutexes
    control_flow,   \* the event loop's ControlFlow
    heading_kind,   \* which path toolbox::simple_heading_animation follows
    hist,           \* history: the fields the animation wrote, by elapsed
    render_thread_healthy,  \* RwLock<bool>: false once a panic was seen
    watchdog,       \* position of the watchdog thread
    down_keys       \* history: the keys whose latest event was Pressed

vars ==
    <<nodes, pc, iter, cur, helicopters, root_node, elapsed, frame_keys, gl_log,
      so_far, pressed_keys, down_keys, mouse_delta, window_size, locks, control_flow,
      heading_kind, render_thread_healthy, watchdog, hist>>

\* The health flag and the thread that writes it.
watchVars == <<render_thread_healthy, watchdog>>

sceneVars == <<nodes, iter, cur, helicopters, root_node>>

sharedVars == <<pressed_keys, down_keys, mouse_delta, window_size, control_flow>>

\* What scene setup leaves alone.
frameVars ==
    <<elapsed, frame_keys, gl_log, so_far, locks, sharedVars, heading_kind, watchVars,
      hist>>

\* What the event loop leaves alone.
renderVars ==
    <<sceneVars, pc, elapsed, frame_keys, gl_log, so_far, locks, heading_kind, watchVars,
      hist>>

\* What the tree builder and the composer leave alone.
idleVars ==
    <<iter, cur, helicopters, elapsed, frame_keys, so_far, locks, sharedVars,
      heading_kind, watchVars, hist>>

(***************************************************************************)
(* Program constants.                                                      *)
(***************************************************************************)
INITIAL_SCREEN_W == 800

INITIAL_SCREEN_H == 600

helicopter_count == 5

\* The handles create_vao returns (glGenVertexArrays names are non-zero).
Vao == [terrain |-> 1, body |-> 2, door |-> 3, main_rotor |-> 4,
        tail_rotor |-> 5]

\* The index counts of the loaded meshes (inputs of the scene setup).
IndexCount == [terrain |-> 12, body |-> 9, door |-> 6, main_rotor |-> 3,
               tail_rotor |-> 3]

Mutexes == {"pressed_keys", "mouse_delta", "window_size"}

\* The key codes the model's keyboard sends.
KeyCodes == {"W", "Up", "Escape"}

\* The sizes the model's window is resized to.
WindowSizes == {<<INITIAL_SCREEN_W, INITIAL_SCREEN_H>>, <<1024, 768>>}

\* The mouse movements the model's mouse sends.
MouseMotions == {<<1, 1>>}

(***************************************************************************)
(* toolbox::simple_heading_animation(time): a pure function of the time    *)
(* giving the body's x, z, roll, yaw and pitch.  Its path is not fixed     *)
(* here; heading_kind selects one of three: standing still, a straight     *)
(* line, and a path that repeats with the period of the helicopters' time  *)
(* offset.                                                                 *)
(***************************************************************************)
HeadingKinds == {"still", "line", "loop"}

SimpleHeadingAnimation(kind, time) ==
    CASE kind = "still" ->
            [x |-> 0, z |-> 0, roll |-> 0, yaw |-> 0, pitch |-> 0]
      [] kind = "line" ->
            [x |-> time * One, z |-> 2 * time * One, roll |-> 100,
             yaw |-> time * 50, pitch |-> 0 - 175]
      [] kind = "loop" ->
            [x |-> (time % 8) * One, z |-> ((time + 4) % 8) * One,
             roll |-> (time % 8) * 100, yaw |-> (time % 8) * 200,
             pitch |-> 0 - 100]

(***************************************************************************)
(* The animation driver: the body of the loop over helicopters.            *)
(***************************************************************************)
\* An animation driver that gives every helicopter the same time.
AnimationOffsetNone(h) == 0

\* animation_offset = i as f32 * 0.8, in deciseconds
AnimationOffset(h) == h * 8

\* helicopter_elapsed * 10.0 (radians), helicopter_elapsed in deciseconds
MainRotorAngle(helicopter_elapsed) == (helicopter_elapsed * 10 * One) \div 10

\* helicopter_elapsed * 20.0 (radians), helicopter_elapsed in deciseconds
TailRotorAngle(helicopter_elapsed) == (helicopter_elapsed * 20 * One) \div 10

\* An animation driver that reaches the rotors one child too early, and so
\* turns the door and the main rotor instead of the two rotors.
AnimateHelicopterWrongChild(ns, hs, h, now, kind) ==
    LET helicopter_elapsed == now + h * 8
        body_node == GetChild(ns, hs[h + 1], 0)
        main_rotor_node == GetChild(ns, body_node, 0)
        tail_rotor_node == GetChild(ns, body_node, 1)
    IN  [ns EXCEPT
            ![main_rotor_node].rotation[2] = helicopter_elapsed * One,
            ![tail_rotor_node].rotation[1] = 2 * helicopter_elapsed * One,
            ![body_node].position[1] = helicopter_elapsed * One]

\* One iteration of `for (i, helicopter) in helicopters.iter_mut().enumerate()`
AnimateHelicopter(ns, hs, h, now, kind) ==
    LET helicopter_elapsed == now + AnimationOffset(h)
        body_node == GetChild(ns, hs[h + 1], 0)
        main_rotor_node == GetChild(ns, body_node, 1)
        tail_rotor_node == GetChild(ns, body_node, 2)
        heading == SimpleHeadingAnimation(kind, helicopter_elapsed)
    IN  [ns EXCEPT
            ![main_rotor_node].rotation[2] = MainRotorAngle(helicopter_elapsed),
            ![tail_rotor_node].rotation[1] = TailRotorAngle(helicopter_elapsed),
            ![body_node].position[1] = heading.x,
            ![body_node].position[3] = heading.z,
            ![body_node].rotation[3] = heading.roll,
            ![body_node].rotation[2] = heading.yaw,
            ![body_node].rotation[1] = heading.pitch]

RECURSIVE AnimateAll(_, _, _, _, _)
AnimateAll(ns, hs, h, now, kind) ==
    IF h >= Len(hs) THEN ns
    ELSE AnimateAll(AnimateHelicopter(ns, hs, h, now, kind), hs, h + 1, now,
                    kind)

\* The transform fields of helicopter h's animated nodes (for the history).
AnimatedFields(ns, hs, h) ==
    LET body_node == GetChild(ns, hs[h + 1], 0)
        part(n) == [position |-> ns[n].position, rotation |-> ns[n].rotation]
    IN  [body |-> part(body_node),
         main_rotor |-> part(GetChild(ns, body_node, 1)),
         tail_rotor |-> part(GetChild(ns, body_node, 2))]

(***************************************************************************)
(* The render thread: scene setup.                                         *)
(***************************************************************************)
Running == control_flow # "Exit"

NoNodes == [root |-> 0, body |-> 0, door |-> 0, main_rotor |-> 0,
            tail_rotor |-> 0]

\* let terrain_node = SceneNode::from_vao(terrain_vao, index_count)
CreateTerrain ==
    /\ Running /\ pc = "terrain"
    /\ nodes' = Append(nodes, FromVao(Vao.terrain, IndexCount.terrain))
    /\ pc' = "heli_new"
    /\ UNCHANGED <<iter, cur, helicopters, root_node, frameVars>>

\* The five nodes one iteration of `for _i in 0..helicopter_count` creates.
HelicopterNodes ==
    << NewNode,
       [FromVao(Vao.body, IndexCount.body)
            EXCEPT !.reference_point = Vec3(0, 0, 0)],
       FromVao(Vao.door, IndexCount.door),
       [FromVao(Vao.main_rotor, IndexCount.main_rotor)
            EXCEPT !.reference_point = Vec3(0, 0, 0)],
       [FromVao(Vao.tail_rotor, IndexCount.tail_rotor)
            EXCEPT !.reference_point = Vec3(350, 2300, 10400)] >>

\* Loop head, and the node creations of one iteration.
CreateHelicopter ==
    /\ Running /\ pc = "heli_new"
    /\ IF iter < helicopter_count
       THEN /\ nodes' = nodes \o HelicopterNodes
            /\ cur' = [root |-> Len(nodes) + 1, body |-> Len(nodes) + 2,
                       door |-> Len(nodes) + 3, main_rotor |-> Len(nodes) + 4,
                       tail_rotor |-> Len(nodes) + 5]
            /\ pc' = "add_door"
            /\ UNCHANGED iter
       ELSE /\ pc' = "root_new"
            /\ iter' = 0
            /\ UNCHANGED <<nodes, cur>>
    /\ UNCHANGED <<helicopters, root_node, frameVars>>

\* helicopter_body_node.add_child(&helicopter_door_node)
AddDoor ==
    /\ Running /\ pc = "add_door"
    /\ nodes' = AddChild(nodes, cur.body, cur.door)
    /\ pc' = "add_main_rotor"
    /\ UNCHANGED <<iter, cur, helicopters, root_node, frameVars>>

\* helicopter_body_node.add_child(&helicopter_main_rotor_node)
AddMainRotor ==
    /\ Running /\ pc = "add_main_rotor"
    /\ nodes' = AddChild(nodes, cur.body, cur.main_rotor)
    /\ pc' = "add_tail_rotor"
    /\ UNCHANGED <<iter, cur, helicopters, root_node, frameVars>>

\* helicopter_body_node.add_child(&helicopter_tail_rotor_node)
AddTailRotor ==
    /\ Running /\ pc = "add_tail_rotor"
    /\ nodes' = AddChild(nodes, cur.body, cur.tail_rotor)
    /\ pc' = "add_body"
    /\ UNCHANGED <<iter, cur, helicopters, root_node, frameVars>>

\* helicopter_root_node.add_child(&helicopter_body_node);
\* helicopters.push(helicopter_root_node)
AddBody ==
    /\ Running /\ pc = "add_body"
    /\ nodes' = AddChild(nodes, cur.root, cur.body)
    /\ helicopters' = Append(helicopters, cur.root)
    /\ iter' = iter + 1
    /\ pc' = "heli_new"
    /\ UNCHANGED <<cur, root_node, frameVars>>

\* let mut root_node = SceneNode::new()
CreateRoot ==
    /\ Running /\ pc = "root_new"
    /\ nodes' = Append(nodes, NewNode)
    /\ root_node' = Len(nodes) + 1
    /\ pc' = "root_add_terrain"
    /\ UNCHANGED <<iter, cur, helicopters, frameVars>>

\* The address of terrain_node: the first node created.
TerrainNode == 1

\* root_node.add_child(&terrain_node)
RootAddTerrain ==
    /\ Running /\ pc = "root_add_terrain"
    /\ nodes' = AddChild(nodes, root_node, TerrainNode)
    /\ pc' = "root_add_heli"
    /\ UNCHANGED <<iter, cur, helicopters, root_node, frameVars>>

\* A loop that attaches the first helicopter in every iteration.
NextHelicopterFirst(hs, k) == hs[1]

\* The helicopter the iter-th iteration of helicopters.iter() yields.
NextHelicopter(hs, k) == hs[k + 1]

\* for helicopter in helicopters.iter() { root_node.add_child(helicopter) }
RootAddHelicopter ==
    /\ Running /\ pc = "root_add_heli"
    /\ IF iter < Len(helicopters)
       THEN /\ nodes' = AddChild(nodes, root_node,
                                 NextHelicopter(helicopters, iter))
            /\ iter' = iter + 1
            /\ UNCHANGED pc
       ELSE /\ pc' = "frame"
            /\ UNCHANGED <<nodes, iter>>
    /\ UNCHANGED <<cur, helicopters, root_node, frameVars>>

Setup ==
    \/ CreateTerrain
    \/ CreateHelicopter
    \/ AddDoor
    \/ AddMainRotor
    \/ AddTailRotor
    \/ AddBody
    \/ CreateRoot
    \/ RootAddTerrain
    \/ RootAddHelicopter

(***************************************************************************)
(* The render thread: one frame of the render loop.                        *)
(***************************************************************************)
\* let now = Instant::now(); let elapsed = now.duration_since(first_frame_time)
\* The clock advances by one of `steps` and never shows more than `max`.
BeginFrame(steps, max) ==
    /\ Running /\ pc = "frame"
    /\ \E d \in steps :
          /\ elapsed + d <= max
          /\ elapsed' = elapsed + d
    /\ frame_keys' = <<>>
    /\ pc' = "lock_keys"
    /\ UNCHANGED <<sceneVars, gl_log, so_far, locks, sharedVars, heading_kind, watchVars,
                   hist>>

\* A guard that is bound for the rest of the loop body instead of a block.
KeepLocked(held, mutex) == held

\* The drop of a MutexGuard at the end of its `if let` block.
Unlock(held, mutex) == [held EXCEPT ![mutex] = "free"]

\* if let Ok(keys) = pressed_keys.lock()
LockKeys ==
    /\ Running /\ pc = "lock_keys"
    /\ locks.pressed_keys = "free"
    /\ locks' = [locks EXCEPT !.pressed_keys = "render"]
    /\ pc' = "read_keys"
    /\ UNCHANGED <<sceneVars, elapsed, frame_keys, gl_log, so_far, sharedVars,
                   heading_kind, watchVars, hist>>

\* for key in keys.iter() { match key { .. } }, and the guard's drop at the
\* end of the block.  The camera the keys move is not modelled; frame_keys
\* records the keys the loop iterated over.
ReadKeys ==
    /\ Running /\ pc = "read_keys"
    /\ frame_keys' = pressed_keys
    /\ locks' = Unlock(locks, "pressed_keys")
    /\ pc' = "lock_mouse"
    /\ UNCHANGED <<sceneVars, elapsed, gl_log, so_far, sharedVars,
                   heading_kind, watchVars, hist>>

\* if let Ok(mut delta) = mouse_delta.lock()
LockMouse ==
    /\ Running /\ pc = "lock_mouse"
    /\ locks.mouse_delta = "free"
    /\ locks' = [locks EXCEPT !.mouse_delta = "render"]
    /\ pc' = "reset_mouse"
    /\ UNCHANGED <<sceneVars, elapsed, frame_keys, gl_log, so_far, sharedVars,
                   heading_kind, watchVars, hist>>

\* *delta = (0.0, 0.0), and the guard's drop at the end of the block
ResetMouse ==
    /\ Running /\ pc = "reset_mouse"
    /\ mouse_delta' = <<0, 0>>
    /\ locks' = Unlock(locks, "mouse_delta")
    /\ pc' = "animate"
    /\ UNCHANGED <<sceneVars, elapsed, frame_keys, gl_log, so_far,
                   pressed_keys, down_keys, window_size, control_flow, heading_kind,
                   watchVars, hist>>

\* for (i, helicopter) in helicopters.iter_mut().enumerate() { .. }
Animate ==
    /\ Running /\ pc = "animate"
    /\ nodes' = AnimateAll(nodes, helicopters, 0, elapsed, heading_kind)
    /\ hist' = [t \in DOMAIN hist \cup {elapsed} |->
                   IF t = elapsed
                   THEN [h \in 0..(Len(helicopters) - 1) |->
                            AnimatedFields(nodes', helicopters, h)]
                   ELSE hist[t]]
    /\ pc' = "draw"
    /\ UNCHANGED <<iter, cur, helicopters, root_node, elapsed, frame_keys,
                   gl_log, so_far, locks, sharedVars, heading_kind,
                   watchVars>>

\* gl::Clear(..); draw_scene(&root_node, &combined_matrix, &identity(), ..)
Draw ==
    /\ Running /\ pc = "draw"
    /\ so_far' = Identity
    /\ gl_log' = DrawScene(nodes, root_node, Identity)
    /\ pc' = "swap"
    /\ UNCHANGED <<sceneVars, elapsed, frame_keys, locks, sharedVars,
                   heading_kind, watchVars, hist>>

\* context.swap_buffers().unwrap(), and the jump back to the loop head
SwapBuffers ==
    /\ Running /\ pc = "swap"
    /\ pc' = "frame"
    /\ UNCHANGED <<sceneVars, elapsed, frame_keys, gl_log, so_far, locks,
                   sharedVars, heading_kind, watchVars, hist>>

\* A panic of the render thread: the unwrap of make_current() before the
\* scene is set up, or the unwrap of swap_buffers() at the end of a frame,
\* on an Err.  Neither happens under a lock.  The thread ends.
Panic ==
    /\ Running /\ pc \in {"terrain", "swap"}
    /\ pc' = "panicked"
    /\ UNCHANGED <<sceneVars, elapsed, frame_keys, gl_log, so_far, locks,
                   sharedVars, heading_kind, watchVars, hist>>

\* The steps of a frame after the clock has been read.
FrameBody ==
    \/ LockKeys
    \/ ReadKeys
    \/ LockMouse
    \/ ResetMouse
    \/ Animate
    \/ Draw
    \/ SwapBuffers

\* The advances of `elapsed` between two frames, in deciseconds.
FrameSteps == {0, 8}

RenderThread ==
    Setup \/ BeginFrame(FrameSteps, MaxLoopElapsed) \/ FrameBody \/ Panic

(***************************************************************************)
(* The watchdog thread: joins the render thread and, when the join reports *)
(* a panic, clears the health flag.  The render loop never returns, so the *)
(* join returns only after a panic.                                        *)
(***************************************************************************)
\* if !render_thread.join().is_ok() { .. *health = false; }
Watchdog ==
    /\ Running /\ watchdog = "join"
    /\ pc = "panicked"
    /\ render_thread_healthy' = FALSE
    /\ watchdog' = "done"
    /\ UNCHANGED <<sceneVars, pc, elapsed, frame_keys, gl_log, so_far, locks,
                   sharedVars, heading_kind, hist>>

(***************************************************************************)
(* The event loop: one action per event handled by the closure of el.run.  *)
(* A handler that locks a mutex waits until the mutex is free.             *)
(***************************************************************************)
\* keys.iter().position(|&k| k == keycode).unwrap()
Position(keys, keycode) ==
    CHOOSE k \in 1..Len(keys) :
        /\ keys[k] = keycode
        /\ \A j \in 1..(k - 1) : keys[j] # keycode

\* keys.contains(&keycode)
Contains(keys, keycode) == \E k \in 1..Len(keys) : keys[k] = keycode

\* keys.remove(i)
Remove(keys, k) == [j \in 1..(Len(keys) - 1) |->
                        IF j < k THEN keys[j] ELSE keys[j + 1]]

\* The Released arm
ReleaseKey(keys, keycode) ==
    IF Contains(keys, keycode)
    THEN Remove(keys, Position(keys, keycode))
    ELSE keys

\* A Pressed arm that pushes the key whether or not the list holds it.
PressKeyAlways(keys, keycode) == Append(keys, keycode)

\* The Pressed arm
PressKey(keys, keycode) ==
    IF ~Contains(keys, keycode) THEN Append(keys, keycode) ELSE keys

\* An event loop that never looks at the health flag.
HealthCheckSkipped(healthy) == "Wait"

\* The head of the closure: *control_flow = ControlFlow::Wait, then Exit if
\* the health flag reads false.
HealthCheck(healthy) == IF healthy = FALSE THEN "Exit" ELSE "Wait"

\* WindowEvent::Resized(physical_size)
Resized ==
    /\ Running
    /\ locks.window_size = "free"
    /\ \E physical_size \in WindowSizes :
          window_size' = <<physical_size[1], physical_size[2], TRUE>>
    /\ control_flow' = HealthCheck(render_thread_healthy)
    /\ UNCHANGED <<pressed_keys, down_keys, mouse_delta, renderVars>>

\* WindowEvent::CloseRequested
CloseRequested ==
    /\ Running
    /\ control_flow' = "Exit"
    /\ UNCHANGED <<pressed_keys, down_keys, mouse_delta, window_size, renderVars>>

\* WindowEvent::KeyboardInput { state: key_state, virtual_keycode, .. }
KeyboardInput ==
    /\ Running
    /\ locks.pressed_keys = "free"
    /\ \E key_state \in {"Pressed", "Released"}, keycode \in KeyCodes :
          /\ pressed_keys' = IF key_state = "Released"
                             THEN ReleaseKey(pressed_keys, keycode)
                             ELSE PressKey(pressed_keys, keycode)
          /\ down_keys' = IF key_state = "Released"
                          THEN down_keys \ {keycode}
                          ELSE down_keys \cup {keycode}
          /\ control_flow' = IF keycode \in {"Escape", "Q"}
                             THEN "Exit"
                             ELSE HealthCheck(render_thread_healthy)
    /\ UNCHANGED <<mouse_delta, window_size, renderVars>>

\* DeviceEvent::MouseMotion { delta }
MouseMotion ==
    /\ Running
    /\ locks.mouse_delta = "free"
    /\ \E delta \in MouseMotions :
          /\ mouse_delta[1] + delta[1] <= MaxMouse
          /\ mouse_delta[2] + delta[2] <= MaxMouse
          /\ mouse_delta' = <<mouse_delta[1] + delta[1],
                              mouse_delta[2] + delta[2]>>
    /\ control_flow' = HealthCheck(render_thread_healthy)
    /\ UNCHANGED <<pressed_keys, down_keys, window_size, renderVars>>

\* Any other event: the `_ => {}` arm
OtherEvent ==
    /\ Running
    /\ control_flow' = HealthCheck(render_thread_healthy)
    /\ UNCHANGED <<pressed_keys, down_keys, mouse_delta, window_size, renderVars>>

EventLoop ==
    \/ Resized
    \/ CloseRequested
    \/ KeyboardInput
    \/ MouseMotion
    \/ OtherEvent

(***************************************************************************)
(* The program: the render thread and the event loop, interleaved.         *)
(***************************************************************************)
\* The shared input state as main creates it.
InitShared ==
    /\ pressed_keys = <<>>
    /\ down_keys = {}
    /\ render_thread_healthy = TRUE
    /\ watchdog = "join"
    /\ mouse_delta = <<0, 0>>
    /\ window_size = <<INITIAL_SCREEN_W, INITIAL_SCREEN_H, FALSE>>
    /\ locks = [m \in Mutexes |-> "free"]
    /\ control_flow = "Poll"

\* The render thread's locals before it has run.
InitLocals ==
    /\ iter = 0
    /\ cur = NoNodes
    /\ helicopters = <<>>
    /\ elapsed = 0
    /\ frame_keys = <<>>
    /\ gl_log = <<>>
    /\ hist = <<>>

Init ==
    /\ nodes = <<>>
    /\ pc = "terrain"
    /\ root_node = 0
    /\ so_far = Identity
    /\ heading_kind \in HeadingKinds
    /\ InitLocals
    /\ InitShared

Next == RenderThread \/ Watchdog \/ EventLoop

Spec == Init /\ [][Next]_vars

(***************************************************************************)
(* The render thread alone, over a longer stretch of time: the animation   *)
(* of the five helicopters at many values of `elapsed`.                    *)
(***************************************************************************)
\* The advances of `elapsed` between two frames when the thread runs alone.
AnimSteps == {0, 3, 8}

NextAnim == Setup \/ BeginFrame(AnimSteps, MaxElapsed) \/ FrameBody

SpecAnim == Init /\ [][NextAnim]_vars

(***************************************************************************)
(* The program under fair scheduling of the render thread: the thread,     *)
(* once spawned, keeps running its loop.  No event needs ever to arrive.   *)
(* The window is only resized or closed: no key is pressed and the mouse   *)
(* does not move.                                                          *)
(***************************************************************************)
NextResize == RenderThread \/ Resized \/ CloseRequested \/ OtherEvent

FairSpecResize == Init /\ [][NextResize]_vars /\ WF_vars(RenderThread)

(***************************************************************************)
(* The program under fair scheduling of the watchdog thread, with a window *)
(* to which events keep arriving: the watchdog, once its join has          *)
(* returned, runs on, and the event loop is woken by a next event.  The    *)
(* render thread is not assumed to make progress.                          *)
(***************************************************************************)
FairSpecWatchdog == Spec /\ WF_vars(Watchdog) /\ WF_vars(EventLoop)

(***************************************************************************)
(* Relations on the arena: children, parents, descendants.                 *)
(***************************************************************************)
NodeIds(ns) == 1..Len(ns)

ChildSet(ns, n) == {ns[n].children[k] : k \in 1..Len(ns[n].children)}

\* The places (parent, position) at which node c is attached.
Attachments(ns, c) ==
    UNION {{<<p, k>> : k \in {j \in 1..Len(ns[p].children) :
                                 ns[p].children[j] = c}} : p \in NodeIds(ns)}

ParentSet(ns, c) == {p \in NodeIds(ns) : c \in ChildSet(ns, p)}

RECURSIVE Closure(_, _, _)
\* The nodes reachable from `frontier` through children, `seen` included.
Closure(ns, frontier, seen) ==
    IF frontier = {} THEN seen
    ELSE LET next == UNION {ChildSet(ns, n) : n \in frontier}
         IN  Closure(ns, next \ (seen \cup frontier), seen \cup frontier)

\* The proper descendants of n (n itself exactly when n lies on a cycle).
Descendants(ns, n) == Closure(ns, ChildSet(ns, n), {})

\* n and everything below it.
Subtree(ns, n) == {n} \cup Descendants(ns, n)

\* Every node is attached at most once, and no node is its own descendant.
IsForest(ns) ==
    \A n \in NodeIds(ns) :
        /\ Cardinality(Attachments(ns, n)) <= 1
        /\ n \notin Descendants(ns, n)

(***************************************************************************)
(* Free tree building: any nodes, attached in any order that keeps the     *)
(* child relation a tree, then one traversal from a root with the          *)
(* identity as transformation_so_far.                                      *)
(***************************************************************************)
\* The nodes the tree builder creates, in this order: a group node, a
\* drawable of 100 elements, a second group node, a drawable of 6 elements,
\* and a drawable of 0 elements; then the same again.
NodeTemplates ==
    << [NewNode EXCEPT !.position = Vec3(0, 2 * One, 0),
                       !.rotation = Vec3(0, 0, 785)],
       [FromVao(1, 100) EXCEPT !.position = Vec3(One, 0, 0),
                               !.rotation = Vec3(0, 1571, 0)],
       [NewNode EXCEPT !.scale = Vec3(2 * One, One, 500),
                       !.reference_point = Vec3(One, 0, One)],
       [FromVao(2, 6) EXCEPT !.scale = Vec3(2 * One, One, One),
                             !.reference_point = Vec3(0, One, 0),
                             !.rotation = Vec3(500, 0, 0)],
       FromVao(3, 0) >>

\* The k-th node created.
TemplateAt(k) == NodeTemplates[((k - 1) % Len(NodeTemplates)) + 1]

\* The precondition of add_child: the result is still a tree.
CanAttach(ns, parent, child) ==
    /\ parent # child
    /\ ParentSet(ns, child) = {}
    /\ parent \notin Descendants(ns, child)

TreeCreate ==
    /\ pc = "build"
    /\ Len(nodes) < MaxNodes
    /\ nodes' = Append(nodes, TemplateAt(Len(nodes) + 1))
    /\ UNCHANGED <<pc, root_node, gl_log, idleVars>>

TreeAddChild ==
    /\ pc = "build"
    /\ \E parent \in NodeIds(nodes), child \in NodeIds(nodes) :
          /\ CanAttach(nodes, parent, child)
          /\ nodes' = AddChild(nodes, parent, child)
    /\ UNCHANGED <<pc, root_node, gl_log, idleVars>>

\* draw_scene(&root, &combined_matrix, &identity(), ..)
TreeDraw ==
    /\ pc = "build"
    /\ \E r \in NodeIds(nodes) :
          /\ ParentSet(nodes, r) = {}
          /\ root_node' = r
          /\ gl_log' = DrawScene(nodes, r, Identity)
    /\ pc' = "drawn"
    /\ UNCHANGED <<nodes, idleVars>>

InitTree ==
    /\ nodes = <<>>
    /\ pc = "build"
    /\ root_node = 0
    /\ so_far = Identity
    /\ heading_kind = "still"
    /\ InitLocals
    /\ InitShared

NextTree == TreeCreate \/ TreeAddChild \/ TreeDraw

SpecTree == InitTree /\ [][NextTree]_vars

(***************************************************************************)
(* The composer alone: draw_scene on one childless node, with any          *)
(* transformation_so_far.                                                  *)
(***************************************************************************)
ComposerPositions == {ZeroVec, Vec3(One, 2 * One, 0 - 3 * One)}

ComposerRotations == {ZeroVec, Vec3(0, 1571, 0), Vec3(300, 0, 0 - 700)}

ComposerScales == {OneVec, Vec3(2 * One, One, One), Vec3(500, 3 * One, One)}

ComposerPivots == {ZeroVec, Vec3(One, 0, 0), Vec3(350, 2300, 10400)}

ComposerNodes ==
    {[NewNode EXCEPT !.position = p, !.rotation = r, !.scale = s,
                     !.reference_point = f] :
        p \in ComposerPositions, r \in ComposerRotations,
        s \in ComposerScales, f \in ComposerPivots}

ComposerMatrices ==
    {Identity,
     Translation(Vec3(One, 2 * One, 3 * One)),
     MatMul(RotationY(1571), Scaling(Vec3(2 * One, 2 * One, 2 * One)))}

Compose ==
    /\ pc = "compose"
    /\ gl_log' = DrawScene(nodes, root_node, so_far)
    /\ pc' = "composed"
    /\ UNCHANGED <<nodes, root_node, idleVars>>

InitComposer ==
    /\ nodes \in {<<n>> : n \in ComposerNodes}
    /\ so_far \in ComposerMatrices
    /\ root_node = 1
    /\ pc = "compose"
    /\ heading_kind = "still"
    /\ InitLocals
    /\ InitShared

SpecComposer == InitComposer /\ [][Compose]_vars

(***************************************************************************)
(* Reading the log of GL calls.                                            *)
(***************************************************************************)
\* A traversal has run and the nodes are as it saw them.
Drawn == pc \in {"drawn", "swap"}

IsUniform(e) == e.call = "UniformMatrix4fv"

IsDraw(e) == e.call = "DrawElements"

\* The uniform uploads of the last traversal: one per visit, in order.
Uploads == SelectSeq(gl_log, IsUniform)

\* The nodes visited by the last traversal, in order.
VisitOrder == [k \in 1..Len(Uploads) |-> Uploads[k].node]

\* The draw calls of the last traversal, in order.
DrawCalls == SelectSeq(gl_log, IsDraw)

Visited == {VisitOrder[k] : k \in 1..Len(VisitOrder)}

\* The place of node n in the visit order.
VisitIndex(n) == CHOOSE k \in 1..Len(VisitOrder) : VisitOrder[k] = n

RECURSIVE PathTo(_, _)
\* The nodes from the top of n's tree down to n, by the parent relation.
PathTo(ns, n) ==
    IF ParentSet(ns, n) = {} THEN <<n>>
    ELSE Append(PathTo(ns, CHOOSE p \in ParentSet(ns, n) : TRUE), n)

RECURSIVE PathProduct(_, _, _)
\* Identity * local(path[1]) * .. * local(path[k]), multiplied left to right.
PathProduct(ns, path, k) ==
    IF k = 0 THEN Identity
    ELSE MatMul(PathProduct(ns, path, k - 1), LocalTransform(ns[path[k]]))

(***************************************************************************)
(* C1.  One traversal from the root visits every node reachable from the   *)
(* root exactly once, every node before all of its descendants, and the    *)
(* children of a node (each with its whole subtree) in the order in which  *)
(* they were attached.                                                     *)
(***************************************************************************)
C1_PreOrderOnce ==
    Drawn =>
        LET reach == Subtree(nodes, root_node)
        IN  /\ Visited = reach
            /\ Len(VisitOrder) = Cardinality(reach)
            /\ \A n \in reach : \A d \in Descendants(nodes, n) :
                  VisitIndex(n) < VisitIndex(d)
            /\ \A n \in reach : \A k \in 1..(Len(nodes[n].children) - 1) :
                  \A d \in Subtree(nodes, nodes[n].children[k]) :
                      VisitIndex(d) < VisitIndex(nodes[n].children[k + 1])

\* A traversal of four nodes in which a node has two children, attached in
\* the order opposite to their creation, the first with a child of its own.
C1_Witness ==
    /\ pc = "drawn"
    /\ Len(VisitOrder) = 4
    /\ \E n \in NodeIds(nodes) :
          /\ Len(nodes[n].children) = 2
          /\ nodes[n].children[1] > nodes[n].children[2]
          /\ nodes[nodes[n].children[1]].children # <<>>

(***************************************************************************)
(* C2.  One traversal issues exactly one draw call for each visited node   *)
(* with a payload (vao_id # 0), with that node's vao and element count,    *)
(* in visit order and right after the node's own uniform upload; it        *)
(* issues none for a node without payload, whose children are visited all  *)
(* the same.                                                               *)
(***************************************************************************)
C2_OneDrawPerPayload ==
    Drawn =>
        LET withPayload(e) == nodes[e.node].vao_id # 0
            payloadVisits == SelectSeq(Uploads, withPayload)
        IN  /\ Len(DrawCalls) = Len(payloadVisits)
            /\ \A k \in 1..Len(DrawCalls) :
                  /\ DrawCalls[k].node = payloadVisits[k].node
                  /\ DrawCalls[k].vao_id = nodes[DrawCalls[k].node].vao_id
                  /\ DrawCalls[k].index_count =
                        nodes[DrawCalls[k].node].index_count
            /\ \A k \in 1..Len(gl_log) :
                  IsDraw(gl_log[k]) =>
                      /\ k > 1
                      /\ IsUniform(gl_log[k - 1])
                      /\ gl_log[k - 1].node = gl_log[k].node
            /\ \A n \in Visited :
                  nodes[n].vao_id = 0 => ChildSet(nodes, n) \subseteq Visited

\* Scenario A: root -> A (100 elements) -> B (no payload) -> C (6 elements),
\* drawn with exactly two draw calls, for A then C.
C2_Witness ==
    /\ pc = "drawn"
    /\ \E a \in NodeIds(nodes), b \in NodeIds(nodes), c \in NodeIds(nodes) :
          /\ nodes[root_node].vao_id = 0
          /\ nodes[root_node].children = <<a>>
          /\ nodes[a].children = <<b>>
          /\ nodes[b].children = <<c>>
          /\ nodes[b].vao_id = 0
          /\ nodes[c].children = <<>>
          /\ Len(DrawCalls) = 2
          /\ DrawCalls[1].node = a /\ DrawCalls[1].index_count = 100
          /\ DrawCalls[2].node = c /\ DrawCalls[2].index_count = 6

(***************************************************************************)
(* C4.  The model matrix uploaded for a visited node is the product of     *)
(* the local transforms on the path from the root down to the node, the    *)
(* root's leftmost; a child's model matrix is its parent's model matrix    *)
(* times its own local transform.                                          *)
(***************************************************************************)
C4_WorldIsPathProduct ==
    Drawn =>
        /\ \A k \in 1..Len(gl_log) :
              LET path == PathTo(nodes, gl_log[k].node)
              IN  /\ path[1] = root_node
                  /\ gl_log[k].model = PathProduct(nodes, path, Len(path))
        /\ \A n \in Visited : \A c \in ChildSet(nodes, n) :
              Uploads[VisitIndex(c)].model =
                  MatMul(Uploads[VisitIndex(n)].model, LocalTransform(nodes[c]))

\* A traversal that reaches a node two levels below the root, after an
\* earlier sibling of its parent, where the transforms on the path differ
\* from the identity.
C4_Witness ==
    /\ pc = "drawn"
    /\ \E n \in Visited, c \in Visited :
          /\ Len(PathTo(nodes, c)) = 3
          /\ Len(nodes[root_node].children) = 2
          /\ nodes[root_node].children[2] = n
          /\ c \in ChildSet(nodes, n)
          /\ LocalTransform(nodes[n]) # Identity
          /\ LocalTransform(nodes[root_node]) # Identity
          /\ Uploads[VisitIndex(c)].model # LocalTransform(nodes[c])

(***************************************************************************)
(* The composer on one node: its inputs and its result.                    *)
(***************************************************************************)
Composed == pc = "composed"

\* The node the composer ran on, and the world transform it uploaded.
ComposedNode == nodes[root_node]

WorldTransform == gl_log[1].model

Add3(u, v) == <<u[1] + v[1], u[2] + v[2], u[3] + v[3]>>

(***************************************************************************)
(* C3.  With zero rotation and the identity as transformation_so_far, the  *)
(* world transform of a node with reference point r and any scale maps r   *)
(* to r + position.                                                        *)
(***************************************************************************)
C3_PivotMovesByPosition ==
    (/\ Composed
     /\ ComposedNode.rotation = ZeroVec
     /\ so_far = Identity)
        => TransformPoint(WorldTransform, ComposedNode.reference_point)
              = Add3(ComposedNode.reference_point, ComposedNode.position)

(***************************************************************************)
(* C5.  A node with zero position, zero rotation, unit scale and zero      *)
(* reference point composed with transformation_so_far = M has the world   *)
(* transform M.                                                            *)
(***************************************************************************)
C5_IdentityNodeYieldsParent ==
    (/\ Composed
     /\ ComposedNode.position = ZeroVec
     /\ ComposedNode.rotation = ZeroVec
     /\ ComposedNode.scale = OneVec
     /\ ComposedNode.reference_point = ZeroVec)
        => WorldTransform = so_far

\* The composer has run on an identity node with an M that is not the
\* identity and holds entries that are no fixed-point integers.
C5_Witness ==
    /\ Composed
    /\ ComposedNode.position = ZeroVec
    /\ ComposedNode.rotation = ZeroVec
    /\ ComposedNode.scale = OneVec
    /\ ComposedNode.reference_point = ZeroVec
    /\ so_far = MatMul(RotationY(1571), Scaling(Vec3(2 * One, 2 * One, 2 * One)))
    /\ so_far # Identity
    /\ WorldTransform = so_far

(***************************************************************************)
(* C6.  At one elapsed time the five helicopters are drawn with five       *)
(* pairwise distinct world transforms (the model matrices of a             *)
(* helicopter's nodes, in visit order), whatever path the heading          *)
(* follows; and the fields the animation writes for helicopter h at        *)
(* elapsed time t are those it writes for helicopter 0 (offset 0) at       *)
(* elapsed time t + h * 0.8 s.                                             *)
(***************************************************************************)
\* The model matrices uploaded for the nodes of helicopter h, in order.
HelicopterWorlds(h) ==
    LET mine(e) == e.node \in Subtree(nodes, helicopters[h + 1])
        ups == SelectSeq(Uploads, mine)
    IN  [k \in 1..Len(ups) |-> ups[k].model]

C6_DistinctAndShifted ==
    /\ pc = "swap" =>
          /\ Len(helicopters) = 5
          /\ \A a \in 0..4, b \in 0..4 :
                a # b => HelicopterWorlds(a) # HelicopterWorlds(b)
          /\ \A h \in 0..4 :
                AnimatedFields(nodes, helicopters, h) = hist[elapsed][h]
    /\ \A t \in DOMAIN hist, u \in DOMAIN hist, h \in 0..4 :
          u = t + h * 8 => hist[t][h] = hist[u][0]

\* Frames were drawn at elapsed 0 and at 0.8, 1.6, 2.4 and 3.2 s, so each
\* helicopter is compared with helicopter 0 at its own offset, on a heading
\* that repeats with the period of the offset.
C6_Witness ==
    /\ pc = "swap"
    /\ heading_kind = "loop"
    /\ {0, 8, 16, 24, 32} \subseteq DOMAIN hist
    /\ hist[0][4] = hist[32][0]
    /\ hist[0][4] # hist[0][0]

(***************************************************************************)
(* The render loop and its parts.                                          *)
(***************************************************************************)
LoopPcs ==
    {"frame", "lock_keys", "read_keys", "lock_mouse", "reset_mouse",
     "animate", "draw", "swap"}

InRenderLoop == pc \in LoopPcs

\* The fields of a node the animation driver never writes.
Fixed(node) ==
    [scale |-> node.scale, reference_point |-> node.reference_point,
     vao_id |-> node.vao_id, index_count |-> node.index_count,
     children |-> node.children]

\* The body, main-rotor and tail-rotor nodes, by their payload.
AnimatedNodes ==
    {n \in NodeIds(nodes) :
        nodes[n].vao_id \in {Vao.body, Vao.main_rotor, Vao.tail_rotor}}

(***************************************************************************)
(* C7.  After every add_child call of scene setup, and in every state of   *)
(* the render loop after it, the child relation is a tree: every node is   *)
(* attached at most once, and no node is its own descendant.               *)
(***************************************************************************)
C7_ChildRelationIsTree == IsForest(nodes)

\* Setup is over: the root holds the terrain and the five helicopters, each
\* helicopter its body, each body its door and its two rotors.
C7_Witness ==
    /\ InRenderLoop
    /\ Len(nodes[root_node].children) = 6
    /\ Cardinality(Descendants(nodes, root_node)) = 26
    /\ \A h \in 1..5 :
          Len(nodes[GetChild(nodes, helicopters[h], 0)].children) = 3

(***************************************************************************)
(* C8.  When the render thread is about to traverse the scene graph, and   *)
(* while it does, it holds none of the three mutexes of the shared input   *)
(* state: every mutex is free for the event loop to take.                  *)
(***************************************************************************)
C8_NoLockWhileDrawing ==
    pc \in {"draw", "swap"} => \A m \in Mutexes : locks[m] = "free"

\* The render thread locked and read the keys and the mouse delta in this
\* frame, and the event loop has published a mouse movement since, before
\* the traversal.
C8_Witness ==
    /\ pc = "draw"
    /\ frame_keys # <<>>
    /\ mouse_delta # <<0, 0>>
    /\ \A m \in Mutexes : locks[m] = "free"

(***************************************************************************)
(* C10.  In the render loop no step changes the number of nodes, or the    *)
(* scale, reference point, payload or children of a node; only the         *)
(* animation step changes a node at all, and then only the position and    *)
(* rotation of body, main-rotor and tail-rotor nodes.                      *)
(***************************************************************************)
C10_FrameChangesOnlyAnimatedFields ==
    [][InRenderLoop =>
        /\ Len(nodes') = Len(nodes)
        /\ \A n \in NodeIds(nodes) :
              /\ Fixed(nodes'[n]) = Fixed(nodes[n])
              /\ n \notin AnimatedNodes => nodes'[n] = nodes[n]
        /\ pc # "animate" => nodes' = nodes
        /\ helicopters' = helicopters /\ root_node' = root_node]_vars

\* The animation has moved a body and turned its rotors, and the scene has
\* been drawn since.
C10_Witness ==
    /\ pc = "swap"
    /\ elapsed > 0
    /\ \E h \in 1..Len(helicopters) :
          LET body_node == GetChild(nodes, helicopters[h], 0)
          IN  /\ nodes[body_node].position # ZeroVec
              /\ nodes[GetChild(nodes, body_node, 1)].rotation # ZeroVec
              /\ nodes[GetChild(nodes, body_node, 2)].rotation # ZeroVec
              /\ nodes[GetChild(nodes, body_node, 0)] =
                    FromVao(Vao.door, IndexCount.door)

(***************************************************************************)
(* C9.  Once the event loop has published a resize (the flag of            *)
(* window_size is true), the render thread eventually reads the size and   *)
(* clears the flag, unless the program exits or the render thread panics   *)
(* first.                                                                  *)
(***************************************************************************)
C9_ResizeEventuallyRead ==
    (window_size[3] = TRUE)
        ~> (window_size[3] = FALSE \/ control_flow = "Exit"
            \/ pc = "panicked")

(***************************************************************************)
(* The watchdog and the health flag.                                       *)
(***************************************************************************)
Panicked == pc = "panicked"

Unhealthy == render_thread_healthy = FALSE

Exited == control_flow = "Exit"

(***************************************************************************)
(* C11.  Once the render thread has panicked, the watchdog clears the      *)
(* health flag (unless the program exits first), and the event loop        *)
(* eventually sets its control flow to Exit.  The flag is cleared only     *)
(* after a panic and never returns to true, and every event handled while  *)
(* the flag is false sets the control flow to Exit, so the first such      *)
(* event does.                                                             *)
(***************************************************************************)
C11_PanicLeadsToExit ==
    /\ [](Unhealthy => Panicked)
    /\ [][Unhealthy => render_thread_healthy' = FALSE]_vars
    /\ [][Unhealthy => control_flow' = "Exit"]_vars
    /\ Panicked ~> (Unhealthy \/ Exited)
    /\ Panicked ~> Exited

\* The render thread panicked at the end of a frame it had drawn, the
\* watchdog cleared the flag, and the event loop has set Exit; no Escape
\* was pressed, and a resize was handled along the way.
C11_Witness ==
    /\ Panicked
    /\ gl_log # <<>>
    /\ Unhealthy
    /\ watchdog = "done"
    /\ Exited
    /\ window_size[3] = TRUE
    /\ ~Contains(pressed_keys, "Escape")

(***************************************************************************)
(* The pressed-key list, read as a set.                                    *)
(***************************************************************************)
KeySet(keys) == {keys[k] : k \in 1..Len(keys)}

NoKeyTwice(keys) ==
    \A j \in 1..Len(keys), k \in 1..Len(keys) : keys[j] = keys[k] => j = k

(***************************************************************************)
(* C12.  After any sequence of key events, interleaved in any way with the *)
(* render thread, the shared pressed-key list holds no key twice and holds *)
(* exactly the keys whose most recent event was Pressed; and no step of    *)
(* the render thread (or of the watchdog) changes the list.                *)
(***************************************************************************)
C12_PressedKeysExact ==
    /\ [](NoKeyTwice(pressed_keys) /\ KeySet(pressed_keys) = down_keys)
    /\ [][renderVars' # renderVars => pressed_keys' = pressed_keys]_vars

\* Two keys were pressed, the render thread iterated over both in a frame,
\* and the key pressed first has been released since and pressed again, so
\* that the list now holds the two in the other order.
C12_Witness ==
    /\ frame_keys = <<"W", "Up">>
    /\ pressed_keys = <<"Up", "W">>
    /\ down_keys = {"W", "Up"}
    /\ pc = "draw"

=============================================================================
